---- MODULE Spec2Model ----
(***************************************************************************)
(* Lifecycle model of react-confetti-hook: the useConfetti hook (the       *)
(* "Lifecycle Gate", src/src/hooks/useConfetti.ts) and the ConfettiBurst   *)
(* class (the "Burst Controller", utils/confetti.ts = src/unnamed/part_002)*)
(* on top of a host that keeps one-shot timers (setTimeout), animation     *)
(* frame requests (requestAnimationFrame) and the display tree             *)
(* (document.body).                                                        *)
(*                                                                         *)
(* Everything runs on one thread: every action below is one whole callback *)
(* step (a call of the public API, a timer callback, an animation frame    *)
(* callback) or the passing of time between steps.                         *)
(*                                                                         *)
(* Time is kept as the remaining delay of every armed timer and as the     *)
(* remaining lifetime (endTime - Date.now()) of every burst whose frame    *)
(* callbacks are still scheduled. A timer callback runs when its delay has *)
(* elapsed; other steps due at the same instant may run before it.         *)
(***************************************************************************)
EXTENDS Integers, Sequences, FiniteSets, TLC

\* ------------------------------------------------------------ bounds
\* calls of fireConfetti in one behaviour
MaxCalls == 2
\* ConfettiBurst objects a direct user of the class constructs
MaxBursts == 2
\* runs of cleanup() on one burst that the direct user may cause
MaxCleanups == 2
\* the largest amount of time (ms) that passes in one Tick
TickMs == 100
\* calls of fireConfetti in one behaviour of SpecConfig
MaxConfigCalls == 1
\* the shortest time (ms) between two frame callbacks of a particle, and the
\* longest as a multiple of it
FrameMs == 10
MaxGap == 2

\* ------------------------------------------------------------ constants
\* a null reference (useRef(null), cleanupTimeoutId = null, container = null)
Null == 0
\* the debounce delay
DebounceMs == 200
\* the baseline window the scaling normalises to
BaselineWidth == 1200
BaselineHeight == 800

Min(a, b) == IF a <= b THEN a ELSE b
Max(a, b) == IF a >= b THEN a ELSE b

\* ------------------------------------------------------------ option objects
\* A JavaScript options object is a function from the names of the fields
\* it has to their values. A callback value is one of the tags
\*   "user"  a callback supplied by the caller of the library,
\*   "gate"  the onStop closure the hook builds (useConfetti.ts 55-58),
\*   "noop"  the constructor's default () => {},
\* and "undefined" is an onStop field that is there and holds undefined.

\* { ...a, ...b }
Spread(a, b) ==
    [f \in (DOMAIN a) \cup (DOMAIN b) |-> IF f \in DOMAIN b THEN b[f] ELSE a[f]]

\* const { f = d } = options
Destructure(options, f, d) == IF f \in DOMAIN options THEN options[f] ELSE d

\* Math.round(num / den) for num >= 0, den > 0 (halves round up)
MathRound(num, den) == (2 * num + den) \div (2 * den)

RECURSIVE GCD(_, _)
GCD(a, b) == IF b = 0 THEN a ELSE GCD(b, a % b)

\* avgScale = (innerWidth / 1200 + innerHeight / 800) / 2
\*          = (800 * innerWidth + 1200 * innerHeight) / (2 * 1200 * 800)
\* as the fraction AvgScaleNum(w, h) / AvgScaleDen, both terms divided by
\* gcd(1200, 800)
AvgScaleNum(w, h) ==
    (BaselineHeight \div GCD(BaselineWidth, BaselineHeight)) * w
        + (BaselineWidth \div GCD(BaselineWidth, BaselineHeight)) * h

AvgScaleDen ==
    (2 * BaselineWidth * BaselineHeight) \div GCD(BaselineWidth, BaselineHeight)

\* mutant: the scaled value is not capped by the requested one
ScaleValue_uncapped(v, w, h) ==
    MathRound(v * AvgScaleNum(w, h), AvgScaleDen)

\* Math.min(Math.round(v * avgScale), v)
ScaleValue(v, w, h) ==
    Min(MathRound(v * AvgScaleNum(w, h), AvgScaleDen), v)

updateScalingFactors(options, w, h) ==
    [duration      |-> ScaleValue(Destructure(options, "duration", 2000), w, h),
     particleCount |-> ScaleValue(Destructure(options, "particleCount", 150), w, h),
     size          |-> ScaleValue(Destructure(options, "size", 15), w, h),
     spread        |-> ScaleValue(Destructure(options, "spread", 70), w, h),
     startVelocity |-> ScaleValue(Destructure(options, "startVelocity", 25), w, h)]

\* the fields updateScalingFactors returns
ScaledFields == {"duration", "particleCount", "size", "spread", "startVelocity"}

\* the object the hook hands to the ConfettiBurst constructor:
\* { ...options, duration, onStop: () => {...}, particleCount, size, spread,
\*   startVelocity }
baseOptions(options, w, h) ==
    [f \in (DOMAIN options) \cup ScaledFields \cup {"onStop"} |->
        IF f = "onStop" THEN "gate"
        ELSE IF f \in ScaledFields THEN updateScalingFactors(options, w, h)[f]
        ELSE options[f]]

\* the constructor's this.config
ConfigDefaults ==
    [bounceCount |-> 2, duration |-> 2000, onStop |-> "noop", particleCount |-> 150,
     randomizeStart |-> FALSE, size |-> 12, spread |-> 70, startVelocity |-> 25]

Config(options) == Spread(ConfigDefaults, options)

\* ------------------------------------------------------------ numbers
\* The particle arithmetic is done on fractions <<numerator, denominator>>
\* in lowest terms with a positive denominator.
Abs(a) == IF a < 0 THEN -a ELSE a

Q(n, d) ==
    LET g == GCD(Abs(n), Abs(d))
        sg == IF d < 0 THEN -1 ELSE 1
    IN <<sg * (n \div g), sg * (d \div g)>>

QInt(n) == <<n, 1>>

QAdd(a, b) ==
    LET g == GCD(a[2], b[2])
    IN Q(a[1] * (b[2] \div g) + b[1] * (a[2] \div g), a[2] * (b[2] \div g))

QNeg(a) == <<-a[1], a[2]>>

QSub(a, b) == QAdd(a, QNeg(b))

QMul(a, b) ==
    LET g1 == GCD(Abs(a[1]), b[2])
        g2 == GCD(Abs(b[1]), a[2])
    IN Q((a[1] \div g1) * (b[1] \div g2), (a[2] \div g2) * (b[2] \div g1))

\* a / b for b # 0
QDiv(a, b) == QMul(a, Q(b[2], b[1]))

QAbs(a) == <<Abs(a[1]), a[2]>>

\* a < b, a <= b
QLt(a, b) == QSub(a, b)[1] < 0
QLe(a, b) == QSub(a, b)[1] <= 0

\* ------------------------------------------------------------ one particle
\* const gravity = 0.8; const bounceDamping = 0.7
gravity == Q(4, 5)
bounceDamping == Q(7, 10)
\* vy: isSettling ? Math.abs(newVy * 0.5) : newVy
SettleDamping == Q(1, 2)
\* vx += wind * 0.05; vy += gravity * 0.3; vx *= 0.98
WindFactor == Q(1, 20)
SettleGravity == Q(3, 10)
AirResistance == Q(49, 50)
\* { x: viewportLeft, vx: -vx * 0.8 }
SideDamping == Q(4, 5)
\* const viewportBottom = window.innerHeight - 20
BottomMargin == 20
\* if (progress > 0.7) opacity = 1 - (progress - 0.7) / 0.3
FadeStart == Q(7, 10)
FadeSpan == Q(3, 10)

\* mutant: without a reflection the top check reports "not settling"
handleTopBounce_flying(y, vy, bounces, bounceCount, damping) ==
    IF QLe(y, QInt(0)) /\ QLt(vy, QInt(0))
    THEN LET newVy == QMul(QNeg(vy), damping)
             settling == bounces + 1 >= bounceCount
         IN [y |-> QInt(0),
             vy |-> IF settling THEN QAbs(QMul(newVy, SettleDamping)) ELSE newVy,
             bounces |-> bounces + 1,
             isSettling |-> settling]
    ELSE [y |-> y, vy |-> vy, bounces |-> bounces, isSettling |-> FALSE]

handleTopBounce(y, vy, bounces, bounceCount, damping) ==
    IF QLe(y, QInt(0)) /\ QLt(vy, QInt(0))
    THEN LET newBounces == bounces + 1
             newVy == QMul(QNeg(vy), damping)
             settling == newBounces >= bounceCount
         IN [y |-> QInt(0),
             vy |-> IF settling THEN QAbs(QMul(newVy, SettleDamping)) ELSE newVy,
             bounces |-> newBounces,
             isSettling |-> settling]
    ELSE [y |-> y, vy |-> vy, bounces |-> bounces,
          isSettling |-> bounces >= bounceCount]

\* mutant: the bottom edge reflects a settling particle too
handleBottomBounce_unguarded(y, vy, bounces, bounceCount, damping, isSettling, height) ==
    LET viewportBottom == QInt(height - BottomMargin)
    IN IF QLe(viewportBottom, y) /\ QLt(QInt(0), vy)
       THEN [y |-> viewportBottom,
             vy |-> QMul(QNeg(vy), damping),
             bounces |-> bounces + 1,
             isSettling |-> bounces + 1 >= bounceCount]
       ELSE [y |-> y, vy |-> vy, bounces |-> bounces, isSettling |-> isSettling]

handleBottomBounce(y, vy, bounces, bounceCount, damping, isSettling, height) ==
    LET viewportBottom == QInt(height - BottomMargin)
    IN IF QLe(viewportBottom, y) /\ QLt(QInt(0), vy) /\ ~isSettling
       THEN LET newBounces == bounces + 1
            IN [y |-> viewportBottom,
                vy |-> QMul(QNeg(vy), damping),
                bounces |-> newBounces,
                isSettling |-> newBounces >= bounceCount]
       ELSE [y |-> y, vy |-> vy, bounces |-> bounces, isSettling |-> isSettling]

handleSideBounce(x, vx, width) ==
    LET viewportLeft == QInt(0)
        viewportRight == QInt(width)
    IN IF QLe(x, viewportLeft) /\ QLt(vx, QInt(0))
       THEN [x |-> viewportLeft, vx |-> QMul(QNeg(vx), SideDamping)]
       ELSE IF QLe(viewportRight, x) /\ QLt(QInt(0), vx)
       THEN [x |-> viewportRight, vx |-> QMul(QNeg(vx), SideDamping)]
       ELSE [x |-> x, vx |-> vx]

\* mutant: the fade is applied from the first frame on
applyFadeOut_early(opacity, timeLeft, duration) ==
    QSub(QInt(1), QDiv(QSub(QSub(QInt(1), Q(timeLeft, duration)), FadeStart), FadeSpan))

\* the opacity of the particle's style after applyFadeOut(particle, timeLeft,
\* duration); it is written only when progress > 0.7
applyFadeOut(opacity, timeLeft, duration) ==
    LET progress == QSub(QInt(1), Q(timeLeft, duration))
    IN IF QLt(FadeStart, progress)
       THEN QSub(QInt(1), QDiv(QSub(progress, FadeStart), FadeSpan))
       ELSE opacity

\* the closure variables the collision checks work on
Motion(p) ==
    [x |-> p.x, y |-> p.y, vx |-> p.vx, vy |-> p.vy,
     bounces |-> p.bounces, isSettling |-> p.isSettling]

\* The closure animateParticle builds, with its first frame requested.
\* l holds the config fields it reads and what its Math.random() calls gave.
\*   timeLeft  endTime - Date.now();  waited  time has passed since the
\*   request of the pending frame;  opacity  the particle's style.opacity
\*   (1 until written)
\* History of the frame callback that ran last: calls counts the callbacks,
\* before, top and mid are Motion at its start, after the top check and after
\* the bottom check, lastOpacity is the opacity before it, reflected says
\* that some callback reflected the particle off the top or the bottom.
animateParticle(l) ==
    [phase |-> "animating",
     duration |-> l.duration, bounceCount |-> l.bounceCount,
     rotationSpeed |-> l.rotationSpeed, wind |-> l.wind,
     rotation |-> QInt(0), x |-> l.startX, y |-> l.startY,
     vy |-> QNeg(QAbs(l.velocity)), vx |-> l.horizontalVelocity,
     bounces |-> 0, isSettling |-> FALSE,
     timeLeft |-> l.duration, waited |-> FALSE, opacity |-> QInt(1),
     calls |-> 0, reflected |-> FALSE, lastOpacity |-> QInt(1),
     before |-> << >>, top |-> << >>, mid |-> << >>]

\* "Apply physics": velocities, then position and rotation
ApplyPhysics(p) ==
    LET vy == IF ~p.isSettling THEN QAdd(p.vy, gravity)
              ELSE QAdd(p.vy, QMul(gravity, SettleGravity))
        vx == IF ~p.isSettling THEN QAdd(p.vx, QMul(p.wind, WindFactor))
              ELSE QMul(p.vx, AirResistance)
    IN [p EXCEPT !.vy = vy, !.vx = vx, !.x = QAdd(p.x, vx), !.y = QAdd(p.y, vy),
                 !.rotation = QAdd(p.rotation, p.rotationSpeed)]

\* mutant: the top check reports Settling whatever the bounce counter is
TopStep_settled(p) ==
    LET r == handleTopBounce(p.y, p.vy, p.bounces, p.bounceCount, bounceDamping)
    IN [p EXCEPT !.y = r.y, !.vy = r.vy, !.bounces = r.bounces,
                 !.isSettling = TRUE]

TopStep(p) ==
    LET r == handleTopBounce(p.y, p.vy, p.bounces, p.bounceCount, bounceDamping)
    IN [p EXCEPT !.y = r.y, !.vy = r.vy, !.bounces = r.bounces,
                 !.isSettling = r.isSettling]

BottomStep(p, height) ==
    LET r == handleBottomBounce(p.y, p.vy, p.bounces, p.bounceCount, bounceDamping,
                                p.isSettling, height)
    IN [p EXCEPT !.y = r.y, !.vy = r.vy, !.bounces = r.bounces,
                 !.isSettling = r.isSettling]

\* mutant: a side reflection counts as a bounce
SideStep_counted(p, width) ==
    LET r == handleSideBounce(p.x, p.vx, width)
    IN [p EXCEPT !.x = r.x, !.vx = r.vx,
                 !.bounces = IF r.vx # p.vx THEN @ + 1 ELSE @,
                 !.isSettling = IF r.vx # p.vx THEN p.bounces + 1 >= p.bounceCount
                                ELSE @]

SideStep(p, width) ==
    LET r == handleSideBounce(p.x, p.vx, width)
    IN [p EXCEPT !.x = r.x, !.vx = r.vx]

FadeStep(p) == [p EXCEPT !.opacity = applyFadeOut(p.opacity, p.timeLeft, p.duration)]

\* the frame callback update of one particle, on its closure
updateParticle(p, width, height) ==
    IF p.timeLeft <= 0
    THEN [p EXCEPT !.phase = "stopped", !.calls = @ + 1, !.waited = FALSE]
    ELSE LET moved == ApplyPhysics(p)
             top == TopStep(moved)
             mid == BottomStep(top, height)
             side == SideStep(mid, width)
             faded == FadeStep(side)
         IN [faded EXCEPT !.calls = @ + 1, !.waited = FALSE,
                          !.before = Motion(p), !.top = Motion(top),
                          !.mid = Motion(mid), !.lastOpacity = p.opacity,
                          !.reflected = @ \/ top.bounces # p.bounces
                                          \/ mid.bounces # top.bounces]

\* ------------------------------------------------------------ state
VARIABLES
    innerWidth, innerHeight,   \* window.innerWidth, window.innerHeight
    activeInstancesRef,        \* the hook's active burst: Null or an index of bursts
    debounceTimerRef,          \* the hook's last debounce timer id: Null or a call number
    isActive,                  \* the hook's state flag
    bursts,                    \* the ConfettiBurst objects constructed so far
    body,                      \* containers attached to document.body
    debounceTimers,            \* armed debounce timers: [id, left]
    cleanupTimers,             \* armed teardown timers: [id, left]
    frames,                    \* requested animation frames: <<burst, particle>>
    calls,                     \* options of every fireConfetti call (timer n closes over calls[n])
    sinceCall,                 \* ms since the last fireConfetti call, capped at DebounceMs
    runLen,                    \* fireConfetti calls since the last burst start
    builtFrom,                 \* per burst: the options object it was requested with
    cleanupRuns,               \* per burst: runs of cleanup()
    endedBy,                   \* per burst: what caused each run of cleanup()
    onStopCalls,               \* per burst: invocations of config.onStop
    userOnStopCalls,           \* per burst: invocations of the caller's own onStop
    peakLive,                  \* most bursts ever live together, inside a step included
    lastOp,                    \* the step taken last
    particle                   \* the closure of one animateParticle call

vars == <<innerWidth, innerHeight, activeInstancesRef, debounceTimerRef, isActive,
          bursts, body, debounceTimers, cleanupTimers, frames, calls, sinceCall,
          runLen, builtFrom, cleanupRuns, endedBy, onStopCalls, userOnStopCalls,
          peakLive, lastOp, particle>>

\* ------------------------------------------------------------ the host
clearTimeout(timers, id) == {t \in timers : t.id # id}

cancelAnimationFrame(fs, id) == fs \ {id}

\* the id requestAnimationFrame returns for particle p of burst b; the value
\* stored under key p in animationIds is always the id of p's latest request
FrameId(b, p) == <<b, p>>

\* ------------------------------------------------------------ the world
\* The part of the state a callback step reads and writes, as one record, so
\* that the statements of a handler compose in their order in the source.
World ==
    [ref |-> activeInstancesRef, isActive |-> isActive, bursts |-> bursts,
     body |-> body, cleanupTimers |-> cleanupTimers, frames |-> frames,
     builtFrom |-> builtFrom, cleanupRuns |-> cleanupRuns, endedBy |-> endedBy,
     onStopCalls |-> onStopCalls, userOnStopCalls |-> userOnStopCalls]

Commit(w) ==
    /\ activeInstancesRef' = w.ref
    /\ isActive' = w.isActive
    /\ bursts' = w.bursts
    /\ body' = w.body
    /\ cleanupTimers' = w.cleanupTimers
    /\ frames' = w.frames
    /\ builtFrom' = w.builtFrom
    /\ cleanupRuns' = w.cleanupRuns
    /\ endedBy' = w.endedBy
    /\ onStopCalls' = w.onStopCalls
    /\ userOnStopCalls' = w.userOnStopCalls

\* a burst has something alive: an attached container, an armed teardown
\* timer or a requested frame
Live(w, b) ==
    \/ b \in w.body
    \/ \E t \in w.cleanupTimers : t.id = b
    \/ \E f \in w.frames : f[1] = b

LiveCount(w) == Cardinality({b \in 1..Len(w.bursts) : Live(w, b)})

\* ------------------------------------------------------------ ConfettiBurst
\* new ConfettiBurst(options). timeLeft is endTime - Date.now() of the burst's
\* particles (all created in the same step, so with one startTime).
NewBurst(options) ==
    [config |-> Config(options), container |-> Null, particles |-> <<>>,
     animationIds |-> {}, cleanupTimeoutId |-> Null, timeLeft |-> 0]

\* the record of a new object, appended to the heap
Construct(w, options, requested) ==
    [w EXCEPT !.bursts = Append(@, NewBurst(options)),
              !.builtFrom = Append(@, requested),
              !.cleanupRuns = Append(@, 0),
              !.endedBy = Append(@, <<>>),
              !.onStopCalls = Append(@, 0),
              !.userOnStopCalls = Append(@, 0)]

createContainer(w, b) ==
    [w EXCEPT !.bursts[b].container = b, !.body = @ \cup {b}]

\* iterations of  for (let i = 1; i < particleCount; i++)
LoopCount(particleCount) == IF particleCount > 1 THEN particleCount - 1 ELSE 0

\* animateParticle for each new particle: one frame request, stored under the
\* particle's key; the particles' endTime is startTime + duration
createParticles(w, b) ==
    IF w.bursts[b].container = Null THEN w
    ELSE LET have == Len(w.bursts[b].particles)
             n == LoopCount(w.bursts[b].config.particleCount)
             new == [i \in 1..n |-> have + i]
             keys == {have + i : i \in 1..n}
         IN [w EXCEPT !.bursts[b].particles = @ \o new,
                      !.bursts[b].animationIds = @ \cup keys,
                      !.bursts[b].timeLeft = w.bursts[b].config.duration,
                      !.frames = @ \cup {FrameId(b, p) : p \in keys}]

\* mutant: no teardown timer is armed
scheduleCleanup_unarmed(w, b) == w

scheduleCleanup(w, b) ==
    LET cleared == IF w.bursts[b].cleanupTimeoutId # Null
                   THEN clearTimeout(w.cleanupTimers, w.bursts[b].cleanupTimeoutId)
                   ELSE w.cleanupTimers
    IN [w EXCEPT !.cleanupTimers =
                     cleared \cup {[id |-> b, left |-> Max(w.bursts[b].config.duration, 0)]},
                 !.bursts[b].cleanupTimeoutId = b]

fire(w, b) == scheduleCleanup(createParticles(createContainer(w, b), b), b)

\* history: what is about to run cleanup() on burst b
Cause(w, b, what) == [w EXCEPT !.endedBy[b] = Append(@, what)]

\* this.config.onStop()
InvokeOnStop(w, b) ==
    LET cb == w.bursts[b].config.onStop
        counted == [w EXCEPT !.onStopCalls[b] = @ + 1]
    IN CASE cb = "gate" -> [counted EXCEPT !.ref = Null, !.isActive = FALSE]
         [] cb = "user" -> [counted EXCEPT !.userOnStopCalls[b] = @ + 1]
         [] cb = "noop" -> counted
         [] OTHER -> w

\* mutant: the teardown timer is left armed, only the id is forgotten
ClearCleanupTimeout_armed(w, b) == [w EXCEPT !.bursts[b].cleanupTimeoutId = Null]

\* the timer part of cleanup()
ClearCleanupTimeout(w, b) ==
    IF w.bursts[b].cleanupTimeoutId # Null
    THEN [w EXCEPT !.cleanupTimers = clearTimeout(@, w.bursts[b].cleanupTimeoutId),
                   !.bursts[b].cleanupTimeoutId = Null]
    ELSE w

\* mutant: the container stays attached, only the fields are reset
RemoveContainer_attached(w, b) ==
    [w EXCEPT !.bursts[b].container = Null, !.bursts[b].particles = <<>>]

\* the container and particle part of cleanup()
RemoveContainer(w, b) ==
    LET c == w.bursts[b].container
    IN [w EXCEPT !.body = IF c # Null /\ c \in @ THEN @ \ {c} ELSE @,
                 !.bursts[b].container = Null,
                 !.bursts[b].particles = <<>>]

\* mutant: the mapping is cleared without cancelling the frames
CancelFrames_forgotten(w, b) == [w EXCEPT !.bursts[b].animationIds = {}]

\* the animation frame part of cleanup()
CancelFrames(w, b) ==
    [w EXCEPT !.frames = @ \ {FrameId(b, p) : p \in w.bursts[b].animationIds},
              !.bursts[b].animationIds = {}]

cleanup(w, b) ==
    LET done == CancelFrames(RemoveContainer(ClearCleanupTimeout(w, b), b), b)
    IN InvokeOnStop([done EXCEPT !.cleanupRuns[b] = @ + 1], b)

stop(w, b) == cleanup(w, b)

\* mutant: the callback requests its next frame whatever the lifetime left is
update_endless(w, b, p) ==
    [w EXCEPT !.bursts[b].animationIds = @ \cup {p}]

\* mutant: a callback that requests its next frame drops the particle's entry
update_unregistered(w, b, p) ==
    LET taken == [w EXCEPT !.frames = cancelAnimationFrame(@, FrameId(b, p))]
    IN IF w.bursts[b].timeLeft <= 0
       THEN [taken EXCEPT !.bursts[b].animationIds = @ \ {p}]
       ELSE [taken EXCEPT !.frames = @ \cup {FrameId(b, p)},
                          !.bursts[b].animationIds = @ \ {p}]

\* one run of the frame callback of particle p of burst b; the particle's
\* position, velocity, rotation and opacity are local to the closure and
\* decide nothing of the burst's lifecycle
update(w, b, p) ==
    LET taken == [w EXCEPT !.frames = cancelAnimationFrame(@, FrameId(b, p))]
    IN IF w.bursts[b].timeLeft <= 0
       THEN [taken EXCEPT !.bursts[b].animationIds = @ \ {p}]
       ELSE [taken EXCEPT !.frames = @ \cup {FrameId(b, p)},
                          !.bursts[b].animationIds = @ \cup {p}]

\* ------------------------------------------------------------ inputs
\* window sizes: the baseline one and one of avgScale 0.5
Windows == {<<1200, 800>>, <<600, 400>>}

\* option objects passed to fireConfetti
GateOptions ==
    {[particleCount |-> 3, duration |-> 200],
     [particleCount |-> 2, duration |-> 300, onStop |-> "user"],
     [particleCount |-> 0, duration |-> 400, bounceCount |-> 1]}

\* option objects passed to new ConfettiBurst by a direct user of the class
BurstOptions ==
    {[particleCount |-> 3, duration |-> 200, onStop |-> "user"],
     [particleCount |-> 1, duration |-> 100],
     [particleCount |-> 2, duration |-> 0, onStop |-> "undefined"]}

\* windows for the scaling: the baseline, half and double of it, and two
\* whose width and height scale differently
ConfigWindows ==
    {<<1200, 800>>, <<600, 400>>, <<2400, 1600>>, <<375, 667>>, <<1000, 500>>}

\* option objects for the scaling: fireConfetti(), the five scaled fields
\* given, and the fields the hook passes through
ConfigOptions ==
    {<< >>,
     [particleCount |-> 300],
     [duration |-> 1, particleCount |-> 5, size |-> 3, spread |-> 7,
      startVelocity |-> 0],
     [bounceCount |-> 0, randomizeStart |-> TRUE, duration |-> 30, size |-> 12]}

\* windows for the particle motion, small enough for a particle to reach
\* every edge within its lifetime
ParticleWindows == {<<20, 40>>}

\* What one pass of the loop in createParticles hands to animateParticle and
\* what animateParticle computes from it before its first frame, for the
\* config fields it reads, a window and the values Math.random() gave:
\*   jitter = 0.8 + random * 0.4, sinAngle = Math.sin(angleRad) with
\*   |angle| <= spread / 2 degrees, spreadOffset = (random - 0.5) * width * 0.3,
\*   spin = random - 0.5, wind = (random - 0.5) * 0.1
Launch(config, win, draw) ==
    LET velocity == QMul(QInt(config.startVelocity), draw.jitter)
    IN [duration |-> config.duration,
        bounceCount |-> config.bounceCount,
        startX |-> QAdd(Q(win[1], 2), draw.spreadOffset),
        startY |-> QInt(win[2] + config.spread),
        velocity |-> velocity,
        horizontalVelocity |-> QMul(QMul(draw.sinAngle, velocity), Q(1, 2)),
        rotationSpeed |-> QMul(draw.spin, velocity),
        wind |-> draw.wind]

\* particles shot straight up, long enough to bounce three times
VerticalLaunches(win) ==
    {Launch([duration |-> 100, startVelocity |-> 25, spread |-> 70, bounceCount |-> b],
            win,
            [jitter |-> QInt(1), sinAngle |-> QInt(0), spreadOffset |-> QInt(0),
             spin |-> Q(1, 5), wind |-> QInt(0)]) : b \in 0..3}

\* particles shot sideways, which reach the left or the right edge
SlantedLaunches(win) ==
    {Launch([duration |-> 50, startVelocity |-> 25, spread |-> 70, bounceCount |-> b],
            win,
            [jitter |-> QInt(1), sinAngle |-> sa, spreadOffset |-> QInt(off),
             spin |-> Q(-1, 5), wind |-> wd]) :
        b \in {0, 2}, sa \in {Q(2, 5), Q(-2, 5)}, off \in {0, 2},
        wd \in {QInt(0), Q(1, 25)}}

Launches(win) == VerticalLaunches(win) \cup SlantedLaunches(win)

\* ------------------------------------------------------------ Init
\* the hook after its first render, no burst constructed yet
Mounted ==
    /\ activeInstancesRef = Null
    /\ debounceTimerRef = Null
    /\ isActive = FALSE
    /\ bursts = <<>>
    /\ body = {}
    /\ debounceTimers = {}
    /\ cleanupTimers = {}
    /\ frames = {}
    /\ calls = <<>>
    /\ sinceCall = 0
    /\ runLen = 0
    /\ builtFrom = <<>>
    /\ cleanupRuns = <<>>
    /\ endedBy = <<>>
    /\ onStopCalls = <<>>
    /\ userOnStopCalls = <<>>
    /\ peakLive = 0
    /\ lastOp = "init"

\* no animateParticle call is followed
NoParticle == [phase |-> "none"]

Init ==
    /\ \E win \in Windows : innerWidth = win[1] /\ innerHeight = win[2]
    /\ Mounted
    /\ particle = NoParticle

hostVars == <<innerWidth, innerHeight>>
worldVars == <<activeInstancesRef, isActive, bursts, body, cleanupTimers, frames,
               builtFrom, cleanupRuns, endedBy, onStopCalls, userOnStopCalls>>
gateVars == <<debounceTimerRef, debounceTimers, calls, sinceCall, runLen>>

\* ------------------------------------------------------------ the hook
\* mutant: the pending debounce timer is not cleared by the next call
clearPendingDebounce_kept(timers, ref) == timers

\* if (debounceTimerRef.current) clearTimeout(debounceTimerRef.current)
clearPendingDebounce(timers, ref) ==
    IF ref # Null THEN clearTimeout(timers, ref) ELSE timers

\* the options the debounce callback with this id closes over
ClosureOptions(id) == calls[id]

\* mutant: a call made while a debounce timer is pending is ignored
FireConfetti_ignored(options) ==
    /\ Len(calls) < MaxCalls
    /\ IF \E t \in debounceTimers : t.id = debounceTimerRef
       THEN UNCHANGED <<debounceTimers, debounceTimerRef>>
       ELSE /\ debounceTimers' = debounceTimers
                    \cup {[id |-> Len(calls) + 1, left |-> DebounceMs]}
            /\ debounceTimerRef' = Len(calls) + 1
    /\ calls' = Append(calls, options)
    /\ sinceCall' = 0
    /\ runLen' = runLen + 1
    /\ lastOp' = "fireConfetti"
    /\ UNCHANGED <<hostVars, particle, worldVars, peakLive>>

FireConfetti(options) ==
    /\ Len(calls) < MaxCalls
    /\ LET id == Len(calls) + 1
       IN /\ debounceTimers' =
                 clearPendingDebounce(debounceTimers, debounceTimerRef)
                     \cup {[id |-> id, left |-> DebounceMs]}
          /\ debounceTimerRef' = id
    /\ calls' = Append(calls, options)
    /\ sinceCall' = 0
    /\ runLen' = runLen + 1
    /\ lastOp' = "fireConfetti"
    /\ UNCHANGED <<hostVars, particle, worldVars, peakLive>>

\* mutant: stopConfetti also cancels the pending debounce timer
StopConfetti_cancelling ==
    /\ IF activeInstancesRef = Null
       THEN UNCHANGED worldVars
       ELSE \E stopped \in {stop(Cause(World, activeInstancesRef, "stopConfetti"),
                                   activeInstancesRef)} : Commit(stopped)
    /\ debounceTimers' = clearPendingDebounce(debounceTimers, debounceTimerRef)
    /\ debounceTimerRef' = Null
    /\ lastOp' = "stopConfetti"
    /\ UNCHANGED <<hostVars, particle, calls, sinceCall, runLen, peakLive>>

\* mutant: no early return; the burst constructed last is stopped again
StopConfetti_unguarded ==
    /\ Len(bursts) > 0
    /\ \E stopped \in {stop(Cause(World, Len(bursts), "stopConfetti"), Len(bursts))} :
          Commit(stopped)
    /\ lastOp' = "stopConfetti"
    /\ UNCHANGED <<hostVars, particle, gateVars, peakLive>>

StopConfetti ==
    /\ IF activeInstancesRef = Null
       THEN UNCHANGED worldVars
       ELSE \E stopped \in {stop(Cause(World, activeInstancesRef, "stopConfetti"),
                                   activeInstancesRef)} : Commit(stopped)
    /\ lastOp' = "stopConfetti"
    /\ UNCHANGED <<hostVars, particle, gateVars, peakLive>>

\* mutant: the previous burst is dropped without being stopped
StopExisting_dropped(w) == [w EXCEPT !.ref = Null]

\* the state after "stop any existing confetti before starting a new one"
StopExisting(w) ==
    IF w.ref # Null
    THEN [stop(Cause(w, w.ref, "replaced"), w.ref) EXCEPT !.ref = Null]
    ELSE w

\* mutant: the burst is started without setIsActive(true)
StartNew_unflagged(w, options) ==
    LET made == Construct(w, baseOptions(options, innerWidth, innerHeight), options)
    IN [made EXCEPT !.ref = Len(made.bursts)]

\* the state after setIsActive(true) and new ConfettiBurst(baseOptions)
StartNew(w, options) ==
    LET made == Construct([w EXCEPT !.isActive = TRUE],
                          baseOptions(options, innerWidth, innerHeight), options)
    IN [made EXCEPT !.ref = Len(made.bursts)]

\* the debounce timer's callback
DebounceFire ==
    \E t \in debounceTimers :
        /\ t.left <= 0
        /\ debounceTimers' = debounceTimers \ {t}
        /\ \E stopped \in {StopExisting(World)} :
           \E started \in {StartNew(stopped, ClosureOptions(t.id))} :
           \E fired \in {fire(started, started.ref)} :
              /\ Commit(fired)
              /\ peakLive' = Max(peakLive,
                                 Max(LiveCount(createContainer(started, started.ref)),
                                     LiveCount(fired)))
        /\ runLen' = 0
        /\ lastOp' = "debounce"
        /\ UNCHANGED <<hostVars, particle, debounceTimerRef, calls, sinceCall>>

\* ------------------------------------------------------------ burst callbacks
\* the teardown timer's callback
CleanupTimerFire ==
    \E t \in cleanupTimers :
        /\ t.left <= 0
        /\ \E taken \in {Cause([World EXCEPT !.cleanupTimers = @ \ {t}], t.id, "timer")} :
           \E cleaned \in {cleanup(taken, t.id)} : Commit(cleaned)
        /\ lastOp' = "teardown"
        /\ UNCHANGED <<hostVars, particle, gateVars, peakLive>>

\* an animation frame callback
AnimationFrame ==
    \E f \in frames :
        /\ \E updated \in {update(World, f[1], f[2])} : Commit(updated)
        /\ lastOp' = "frame"
        /\ UNCHANGED <<hostVars, particle, gateVars, peakLive>>

\* ------------------------------------------------------------ time
\* Time passes, at most up to the next timer's deadline. The lifetime of a
\* burst is read by its frame callbacks alone, and only compared with 0
\* once it is not positive.
Elapse(timers, d) == {[t EXCEPT !.left = @ - d] : t \in timers}

Tick ==
    LET lefts == {t.left : t \in debounceTimers \cup cleanupTimers}
        d == IF \E l \in lefts : l < TickMs
             THEN CHOOSE l \in lefts : \A m \in lefts : l <= m
             ELSE TickMs
    IN /\ d > 0
       /\ debounceTimers' = Elapse(debounceTimers, d)
       /\ cleanupTimers' = Elapse(cleanupTimers, d)
       /\ bursts' = [b \in 1..Len(bursts) |->
                        IF \E f \in frames : f[1] = b
                        THEN [bursts[b] EXCEPT !.timeLeft = Max(@ - d, 0)]
                        ELSE bursts[b]]
       /\ sinceCall' = Min(sinceCall + d, DebounceMs)
       /\ lastOp' = "tick"
       /\ UNCHANGED <<hostVars, particle, activeInstancesRef, debounceTimerRef, isActive, body,
                      frames, calls, runLen, builtFrom, cleanupRuns, endedBy,
                      onStopCalls, userOnStopCalls, peakLive>>

\* ------------------------------------------------------------ direct use
\* const confetti = new ConfettiBurst(options); confetti.fire()
BurstCreate(options) ==
    /\ Len(bursts) < MaxBursts
    /\ \E made \in {Construct(World, options, options)} :
       \E fired \in {fire(made, Len(made.bursts))} : Commit(fired)
    /\ lastOp' = "new"
    /\ UNCHANGED <<hostVars, particle, gateVars, peakLive>>

\* confetti.stop()
BurstStop(b) ==
    /\ b \in 1..Len(bursts)
    /\ cleanupRuns[b] < MaxCleanups
    /\ \E stopped \in {stop(Cause(World, b, "stop"), b)} : Commit(stopped)
    /\ lastOp' = "stop"
    /\ UNCHANGED <<hostVars, particle, gateVars, peakLive>>

\* ------------------------------------------------------------ specifications
FireConfettiCall == \E options \in GateOptions : FireConfetti(options)

BurstCreateCall == \E options \in BurstOptions : BurstCreate(options)

BurstStopCall == \E b \in 1..MaxBursts : BurstStop(b)

\* a component that uses the hook
Next ==
    \/ FireConfettiCall
    \/ StopConfetti
    \/ DebounceFire
    \/ CleanupTimerFire
    \/ AnimationFrame
    \/ Tick

Spec == Init /\ [][Next]_vars

\* the host runs a due timer callback, and time passes
LiveSpec ==
    /\ Spec
    /\ WF_vars(Tick)
    /\ WF_vars(DebounceFire)
    /\ WF_vars(CleanupTimerFire)

\* the host runs the due debounce callback and the requested frames, and time
\* passes; the teardown timer's callback may be held back for ever
FrameSpec ==
    /\ Spec
    /\ WF_vars(Tick)
    /\ WF_vars(DebounceFire)
    /\ WF_vars(AnimationFrame)

\* a program that uses the ConfettiBurst class itself
NextBurst ==
    \/ BurstCreateCall
    \/ BurstStopCall
    \/ CleanupTimerFire
    \/ AnimationFrame
    \/ Tick

SpecBurst == Init /\ [][NextBurst]_vars

\* one particle: its frame callbacks and the time between them
lifeVars == <<hostVars, worldVars, gateVars, peakLive, lastOp>>

InitParticle ==
    /\ \E win \in ParticleWindows :
          /\ innerWidth = win[1] /\ innerHeight = win[2]
          /\ \E l \in Launches(win) : particle = animateParticle(l)
    /\ Mounted

\* time passes until the browser runs the requested frame
ParticleElapse ==
    /\ particle.phase = "animating"
    /\ ~particle.waited
    /\ \E k \in 1..MaxGap :
          particle' = [particle EXCEPT !.timeLeft = @ - FrameMs * k, !.waited = TRUE]
    /\ UNCHANGED lifeVars

ParticleFrame ==
    /\ particle.phase = "animating"
    /\ particle.waited
    /\ particle' = updateParticle(particle, innerWidth, innerHeight)
    /\ UNCHANGED lifeVars

NextParticle ==
    \/ ParticleElapse
    \/ ParticleFrame

SpecParticle == InitParticle /\ [][NextParticle]_vars

\* a component that uses the hook on windows of several sizes, with the option
\* objects of ConfigOptions; the frame callbacks, which leave this.config
\* alone, are not followed
InitConfig ==
    /\ \E win \in ConfigWindows : innerWidth = win[1] /\ innerHeight = win[2]
    /\ Mounted
    /\ particle = NoParticle

FireConfettiConfig ==
    /\ Len(calls) < MaxConfigCalls
    /\ \E options \in ConfigOptions : FireConfetti(options)

NextConfig ==
    \/ FireConfettiConfig
    \/ StopConfetti
    \/ DebounceFire
    \/ CleanupTimerFire
    \/ Tick

SpecConfig == InitConfig /\ [][NextConfig]_vars

\* ------------------------------------------------------------ properties
Bursts == 1..Len(bursts)

\* burst b holds and has scheduled nothing
Inert(w, b) ==
    /\ b \notin w.body
    /\ w.bursts[b].container = Null
    /\ w.bursts[b].particles = <<>>
    /\ w.bursts[b].animationIds = {}
    /\ \A f \in w.frames : f[1] # b
    /\ w.bursts[b].cleanupTimeoutId = Null
    /\ \A t \in w.cleanupTimers : t.id # b

\* the options of the last fireConfetti call
LastCall == calls[Len(calls)]

\* C1, state part: while calls are unserved exactly one debounce timer is
\* armed, it is the one of the last call, and it is due DebounceMs after
\* that call; no timer is armed otherwise.
DebounceArmed ==
    /\ Cardinality(debounceTimers) <= 1
    /\ (debounceTimers # {}) <=> (runLen > 0)
    /\ \A t \in debounceTimers :
          /\ t.id = Len(calls)
          /\ t.id = debounceTimerRef
          /\ t.left = DebounceMs - sinceCall

\* C1, step part: a step constructs at most one burst; it does so only for
\* unserved calls, DebounceMs after the last of them, from the options of
\* that last call, and it serves all of them.
DebounceStart ==
    Len(bursts') # Len(bursts) =>
        /\ Len(bursts') = Len(bursts) + 1
        /\ runLen > 0
        /\ runLen' = 0
        /\ sinceCall >= DebounceMs
        /\ builtFrom'[Len(bursts')] = LastCall
        /\ bursts'[Len(bursts')].config =
               Config(baseOptions(LastCall, innerWidth, innerHeight))
        /\ Live(World', Len(bursts'))

\* C1: Debounce. Calls of fireConfetti that each come less than 200ms after
\* the one before are served by exactly one burst, constructed and fired
\* 200ms after the last of them from the last call's options; no earlier
\* call of the run starts a burst.
C1_Debounce == []DebounceArmed /\ [][DebounceStart]_vars

\* two calls with different options were made in one run, and the burst that
\* served them has just started, from the second call's options
C1_Witness ==
    /\ lastOp = "debounce"
    /\ Len(calls) = 2
    /\ Len(bursts) = 1
    /\ calls[1] # calls[2]
    /\ builtFrom[1] = calls[2]

\* C2: Single flight. At most one burst has an attached container, an armed
\* teardown timer or requested frames, in every state and also inside the
\* step that replaces a burst: the old burst is reaped before the new
\* container is created.
C2_SingleFlight ==
    /\ LiveCount(World) <= 1
    /\ peakLive <= 1

\* a burst with particles was replaced while it ran, and its successor runs
C2_Witness ==
    /\ Len(bursts) = 2
    /\ endedBy[1] = <<"replaced">>
    /\ bursts[1].config.particleCount >= 2
    /\ bursts[1].timeLeft > 0
    /\ Live(World, 2)
    /\ peakLive = 1

\* C3: once cleanup() has run on a fired burst (stop() is cleanup()), the
\* burst is inert in every later state: container detached and null, no
\* particles, empty driver mapping, none of its frames requested, no
\* teardown timer armed; so none of its callbacks can run again.
C3_InertAfterStop ==
    \A b \in Bursts : cleanupRuns[b] >= 1 => Inert(World, b)

\* a burst with particles has just been stopped by stop() before its
\* lifetime was over
C3_Witness ==
    /\ lastOp = "stop"
    /\ \E b \in Bursts :
          /\ endedBy[b] = <<"stop">>
          /\ bursts[b].config.particleCount >= 2
          /\ bursts[b].timeLeft > 0
          /\ Inert(World, b)

\* C4: stop() is idempotent: a burst whose cleanup has run has had its
\* configured completion callback invoked exactly once, however many
\* stop() calls and teardown-timer firings there were.
C4_OnStopOnce ==
    \A b \in Bursts :
        (cleanupRuns[b] >= 1 /\ bursts[b].config.onStop # "undefined")
            => onStopCalls[b] = 1

\* C5, state part: isActive is true exactly when the active-burst reference
\* is set.
ActiveIffRef == isActive <=> (activeInstancesRef # Null)

\* C5, step part: isActive becomes true only in the step of the debounce
\* timer, which always ends with it true and a burst started; it becomes
\* false only in a step that runs a completion callback, and a step that
\* runs one without starting a burst ends with it false and the reference
\* cleared.
ActiveChange ==
    /\ (~isActive /\ isActive') => lastOp' = "debounce"
    /\ lastOp' = "debounce" =>
          (isActive' /\ activeInstancesRef' = Len(bursts') /\ Len(bursts') = Len(bursts) + 1)
    /\ (isActive /\ ~isActive') => onStopCalls' # onStopCalls
    /\ (onStopCalls' # onStopCalls /\ Len(bursts') = Len(bursts)) =>
          (~isActive' /\ activeInstancesRef' = Null)

\* C5: isActive is false initially and mirrors the active-burst reference at
\* the end of every callback step.
C5_IsActive == ~isActive /\ []ActiveIffRef /\ [][ActiveChange]_vars

\* a second burst runs after the first one completed
C5_Witness ==
    /\ Len(bursts) = 2
    /\ onStopCalls[1] = 1
    /\ isActive
    /\ activeInstancesRef = 2

\* C6: Automatic teardown. After a burst starts, its teardown timer fires
\* unless a call of fireConfetti or stopConfetti comes first; an active
\* burst always becomes inactive; and once the calls have ended isActive
\* is false for good.
C6_AutoTeardown ==
    /\ (lastOp = "debounce") ~> (lastOp \in {"teardown", "fireConfetti", "stopConfetti"})
    /\ isActive ~> ~isActive
    /\ <>[](~isActive)

\* a burst was torn down by its timer alone
C6_Witness ==
    /\ lastOp = "teardown"
    /\ Len(bursts) = 1
    /\ endedBy[1] = <<"timer">>
    /\ ~isActive
    /\ Inert(World, 1)

\* C7, step part: a stopConfetti step taken with the reference set ends with
\* that burst inert after one more run of cleanup(), the reference null and
\* isActive false; the debounce timers are not touched.
StopActive ==
    (lastOp' = "stopConfetti" /\ activeInstancesRef # Null) =>
        /\ Inert(World', activeInstancesRef)
        /\ cleanupRuns'[activeInstancesRef] = cleanupRuns[activeInstancesRef] + 1
        /\ activeInstancesRef' = Null
        /\ ~isActive'
        /\ UNCHANGED gateVars

\* C7: stopConfetti called while a burst is active tears that burst down
\* within the same step, without waiting for the debounce or the teardown
\* timer: when the call returns the burst is inert, the active-burst
\* reference is null and isActive is false.
C7_StopImmediate == [][StopActive]_vars

\* stopConfetti has just ended a burst with particles whose teardown timer
\* was not due
C7_Witness ==
    /\ lastOp = "stopConfetti"
    /\ \E b \in Bursts :
          /\ endedBy[b] = <<"stopConfetti">>
          /\ bursts[b].config.particleCount >= 2
          /\ bursts[b].timeLeft > 0

\* C8, step part: a stopConfetti step taken with isActive false changes no
\* variable of the program.
StopInactive ==
    (lastOp' = "stopConfetti" /\ ~isActive) =>
        UNCHANGED <<hostVars, particle, worldVars, gateVars, peakLive>>

\* C8: stopConfetti called while no burst is active (isActive false) invokes
\* no completion callback and leaves every piece of state unchanged;
\* isActive remains false.
C8_StopNoop == [][StopInactive]_vars

\* stopConfetti has just been called after the only burst was torn down by
\* its timer
C8_Witness ==
    /\ lastOp = "stopConfetti"
    /\ ~isActive
    /\ Len(bursts) = 1
    /\ endedBy[1] = <<"timer">>
    /\ onStopCalls[1] = 1

\* C9: right after fire() the burst has exactly particleCount particles,
\* each with one registered driver, one attached container and one armed
\* teardown timer.
C9_FireCreatesAll ==
    lastOp = "new" =>
        LET b == Len(bursts)
            n == bursts[b].config.particleCount
        IN /\ Len(bursts[b].particles) = n
           /\ bursts[b].animationIds = 1..n
           /\ {f \in frames : f[1] = b} = {FrameId(b, p) : p \in 1..n}
           /\ b \in body
           /\ Cardinality({t \in cleanupTimers : t.id = b}) = 1

\* C10: a completion callback passed in the options of fireConfetti has been
\* invoked once the burst started from those options has completed.
C10_UserOnStop ==
    \A b \in Bursts :
        (cleanupRuns[b] >= 1 /\ "onStop" \in DOMAIN builtFrom[b])
            => userOnStopCalls[b] >= 1

\* ------------------------------------------------------------ C11, C12
\* the window is at least as large as the baseline on average
FullScale == AvgScaleNum(innerWidth, innerHeight) >= AvgScaleDen

\* C11: a burst started through the hook with an option left out uses the
\* documented default of that option (bounceCount 2, duration 2000,
\* particleCount 150, randomizeStart false, size 12, spread 70,
\* startVelocity 25) when the window does not scale it down.
C11_Defaults ==
    \A b \in Bursts :
        \A f \in (DOMAIN ConfigDefaults) \ {"onStop"} :
            (FullScale /\ f \notin DOMAIN builtFrom[b])
                => bursts[b].config[f] = ConfigDefaults[f]

\* r is Math.round(v * num / den): r - 1/2 <= v * num / den < r + 1/2
IsRounded(r, v, num, den) ==
    /\ 2 * r * den <= 2 * v * num + den
    /\ 2 * v * num + den < 2 * r * den + 2 * den

\* r is min(round(v * num / den), v)
IsScaled(r, v, num, den) ==
    /\ r <= v
    /\ num >= den => r = v
    /\ r < v => IsRounded(r, v, num, den)
    /\ r = v => 2 * v * num + den >= 2 * v * den

Framed == particle.phase = "animating" /\ particle.calls > 0

HitTop == particle.top.bounces # particle.before.bounces
HitBottom == particle.mid.bounces # particle.top.bounces
HitSide == particle.vx # particle.mid.vx \/ particle.x # particle.mid.x

\* C13: the bounce counter of a particle never exceeds bounceCount; once it
\* has reached bounceCount the particle is Settling and no later frame
\* reflects it off the top or the bottom edge.
C13_BounceBound ==
    Framed =>
        /\ particle.bounces <= particle.bounceCount
        /\ particle.bounces >= particle.bounceCount => particle.isSettling
        /\ particle.before.bounces >= particle.bounceCount => ~HitTop /\ ~HitBottom

\* ------------------------------------------------------------ C14
\* fire() has returned and cleanup() has not run
Running(b) == cleanupRuns[b] = 0 /\ bursts[b].container # Null

ParticleSet(b) == {bursts[b].particles[i] : i \in 1..Len(bursts[b].particles)}

\* C14 as stated: while a burst is running, its particle collection and the
\* keys of its driver mapping are the same set in every state, also when the
\* lifetime of a particle has elapsed before the teardown timer fires.
C14_Membership ==
    \A b \in Bursts : Running(b) => ParticleSet(b) = bursts[b].animationIds

\* C14 amended: while a burst is running every key of its driver mapping is
\* one of its particles, and the two sets are equal as long as the particles'
\* remaining lifetime is positive.
C14_MembershipAlive ==
    \A b \in Bursts :
        Running(b) =>
            /\ bursts[b].animationIds \subseteq ParticleSet(b)
            /\ bursts[b].timeLeft > 0 => ParticleSet(b) = bursts[b].animationIds

\* a running burst one of whose particles has ended itself, another not yet
C14_Witness ==
    \E b \in Bursts :
        /\ Running(b)
        /\ bursts[b].timeLeft <= 0
        /\ bursts[b].animationIds # {}
        /\ bursts[b].animationIds # ParticleSet(b)
        /\ \E t \in cleanupTimers : t.id = b

\* ------------------------------------------------------------ C15
\* an animateParticle call is followed
Launched == particle.phase # "none"

\* C15 as stated: for every bounceCount >= 0 a particle that has not yet
\* reflected off the top or the bottom edge is not Settling, and it enters
\* Settling only in a frame in which it reflects off one of them.
C15_SettlingByBounce ==
    /\ Launched /\ particle.isSettling => particle.reflected
    /\ Framed /\ particle.isSettling /\ ~particle.before.isSettling
           => HitTop \/ HitBottom

\* C15 amended: the same for every bounceCount >= 1; with bounceCount 0 the
\* particle is Settling from the end of its first frame, reflected or not.
C15_SettlingByBounceOrZero ==
    /\ Launched /\ particle.bounceCount >= 1 => C15_SettlingByBounce
    /\ Framed /\ particle.bounceCount <= 0 => particle.isSettling

\* a particle with bounceCount >= 1 in the frame in which it enters Settling
C15_Witness ==
    /\ Framed
    /\ particle.bounceCount >= 1
    /\ particle.isSettling
    /\ ~particle.before.isSettling

\* ------------------------------------------------------------ C16
\* C16: a particle that is Settling at the end of a frame is Settling at the
\* end of the next, and the bottom-edge rule of that frame leaves its y and vy
\* as they are, also when y >= innerHeight - 20 and vy > 0.
C16_SettlingAbsorbing ==
    Framed /\ particle.before.isSettling =>
        /\ particle.isSettling
        /\ ~HitBottom
        /\ particle.mid.y = particle.top.y
        /\ particle.mid.vy = particle.top.vy

\* a settling particle at or below the bottom edge, moving down
C16_Witness ==
    /\ Framed
    /\ particle.before.isSettling
    /\ QLe(QInt(innerHeight - BottomMargin), particle.top.y)
    /\ QLt(QInt(0), particle.top.vy)

\* ------------------------------------------------------------ C17
\* C17: the left/right-edge check of a frame, reflecting or not, leaves the
\* bounce counter, the Settling flag, y and vy as the bottom check left them.
C17_SideOnlyX ==
    Framed =>
        /\ particle.bounces = particle.mid.bounces
        /\ particle.isSettling = particle.mid.isSettling
        /\ particle.y = particle.mid.y
        /\ particle.vy = particle.mid.vy

\* a frame that reflects the particle off a side edge
C17_Witness ==
    /\ Framed
    /\ HitSide
    /\ particle.x \in {QInt(0), QInt(innerWidth)}

\* ------------------------------------------------------------ C18
\* the callback of frame f ends its particle: the request is used up and not
\* renewed, the particle's entry leaves the mapping, nothing else changes
SelfTermination(f) ==
    /\ frames' = frames \ {f}
    /\ bursts' = [bursts EXCEPT ![f[1]].animationIds = @ \ {f[2]}]
    /\ UNCHANGED <<body, cleanupTimers, debounceTimers, activeInstancesRef, isActive,
                   cleanupRuns, onStopCalls>>

\* C18: a frame callback that runs with remaining lifetime <= 0 removes its
\* particle's entry from the driver mapping and requests no further frame,
\* and leaves the container, the particle collection, the teardown timer and
\* the other particles' entries and requests alone; so from some time on no
\* frame of any particle is requested any more, also when the teardown
\* timer's callback never runs.
C18_SelfTermination ==
    /\ [][lastOp' = "frame" =>
              \E f \in frames :
                  IF bursts[f[1]].timeLeft <= 0
                  THEN SelfTermination(f)
                  ELSE UNCHANGED <<frames, bursts, body, cleanupTimers>>]_vars
    /\ <>[](frames = {})

\* every particle of a burst has ended itself while the teardown timer is
\* still armed and the container attached
C18_Witness ==
    /\ lastOp = "frame"
    /\ \E b \in Bursts :
          /\ Len(bursts[b].particles) > 0
          /\ bursts[b].animationIds = {}
          /\ bursts[b].container \in body
          /\ \E t \in cleanupTimers : t.id = b /\ t.left <= 0

\* ------------------------------------------------------------ C19
\* the state right after a frame callback that ran the physics: timeLeft is
\* still the one the callback read
JustFramed == Framed /\ ~particle.waited

\* the callback ran with elapsed time <= 0.7 * duration
BeforeFade == 10 * (particle.duration - particle.timeLeft) <= 7 * particle.duration

\* C19: the opacity of a particle after a frame is not larger than before it;
\* it is 1 in every frame with elapsed time <= 0.7 * duration, and in a later
\* frame it is timeLeft / (0.3 * duration), strictly between 0 and 1.
C19_FadeOut ==
    JustFramed =>
        /\ QLe(particle.opacity, particle.lastOpacity)
        /\ BeforeFade => particle.opacity = QInt(1)
        /\ ~BeforeFade =>
              /\ particle.opacity = Q(10 * particle.timeLeft, 3 * particle.duration)
              /\ QLt(QInt(0), particle.opacity)
              /\ QLt(particle.opacity, QInt(1))

\* the second of two frames in the last 30% of the lifetime
C19_Witness ==
    /\ JustFramed
    /\ ~BeforeFade
    /\ QLt(particle.opacity, particle.lastOpacity)
    /\ QLt(particle.lastOpacity, QInt(1))

\* ------------------------------------------------------------ C20
\* the debounce timer of an earlier call has not run yet
DebouncePending == \E t \in debounceTimers : t.id = debounceTimerRef

\* what is pending: the remaining delay of every armed debounce timer and the
\* options its callback will use
PendingFires == {<<t.left, ClosureOptions(t.id)>> : t \in debounceTimers}

\* the call leaves the active burst and isActive alone
GateUntouched ==
    UNCHANGED <<activeInstancesRef, isActive, bursts, body, frames, cleanupTimers>>

\* C20 as stated: a fireConfetti call made while the debounce timer is pending
\* changes no state: the pending timer's deadline, the options the pending
\* fire will use, the active burst and isActive stay as they are.
C20_PendingNoop ==
    [][lastOp' = "fireConfetti" /\ DebouncePending
           => PendingFires' = PendingFires /\ GateUntouched]_vars

\* C20 amended: such a call leaves the active burst and isActive alone, and
\* replaces the pending timer by one that is due DebounceMs after this call
\* and will use this call's options.
C20_PendingRestart ==
    [][lastOp' = "fireConfetti" /\ DebouncePending
           => /\ GateUntouched
              /\ PendingFires' = {<<DebounceMs, calls'[Len(calls')]>>}
              /\ debounceTimerRef' = Len(calls')
              /\ debounceTimerRef' # debounceTimerRef]_vars

\* after a call made while the timer of the call before it was pending, with
\* other options: the one pending fire is this call's
C20_Witness ==
    /\ lastOp = "fireConfetti"
    /\ runLen >= 2
    /\ calls[Len(calls)] # calls[Len(calls) - 1]
    /\ PendingFires = {<<DebounceMs, LastCall>>}

\* ------------------------------------------------------------ C21
\* C21, state part: a burst with an attached container, an armed teardown
\* timer or requested frames is the one the active-burst reference holds.
Held == \A b \in Bursts : Live(World, b) => activeInstancesRef = b

\* C21, step part: the completion callback of a burst runs only in a step
\* that starts with this burst as the newest one and in the reference; and a
\* step that takes burst b out of the reference is a run of b's own
\* cleanup(), which leaves b inert.
OwnCompletion ==
    \A b \in Bursts :
        /\ onStopCalls'[b] # onStopCalls[b] =>
              /\ b = Len(bursts)
              /\ activeInstancesRef = b
        /\ (activeInstancesRef = b /\ activeInstancesRef' # b) =>
              /\ cleanupRuns'[b] = cleanupRuns[b] + 1
              /\ Inert(World', b)

\* C21: no live burst is orphaned. Every burst that still has a container,
\* a teardown timer or drivers is the burst in the gate's reference, and the
\* completion callback of a replaced or stopped burst never runs once a newer
\* burst is stored, so it cannot clear that burst's reference or isActive.
C21_NoOrphan == []Held /\ [][OwnCompletion]_vars

\* the debounce callback has just replaced a running burst: the old one is
\* inert with its callback run once, the new one is live and held
C21_Witness ==
    /\ lastOp = "debounce"
    /\ Len(bursts) = 2
    /\ endedBy[1] = <<"replaced">>
    /\ onStopCalls[1] = 1
    /\ Inert(World, 1)
    /\ Live(World, 2)
    /\ activeInstancesRef = 2
    /\ isActive

\* ------------------------------------------------------------ C22
\* C22, step part: a stopConfetti call leaves the debounce timers, the
\* reference to the pending one and the options it will use as they are.
StopKeepsDebounce ==
    lastOp' = "stopConfetti" =>
        /\ UNCHANGED gateVars
        /\ PendingFires' = PendingFires

\* stopConfetti has just returned while a debounce timer is pending
StoppedWhilePending == lastOp = "stopConfetti" /\ DebouncePending

\* C22: stopConfetti never cancels a pending debounce timer. After a
\* stopConfetti call made before the debounce delay of a fireConfetti call has
\* elapsed the timer is still armed, and its callback runs later and starts
\* a burst with isActive true.
C22_StopKeepsPending ==
    /\ [][StopKeepsDebounce]_vars
    /\ StoppedWhilePending ~> (lastOp = "debounce" /\ isActive)

\* stopConfetti has just ended the active burst while the timer of a later
\* fireConfetti call is pending and not yet due
C22_Witness ==
    /\ StoppedWhilePending
    /\ Len(bursts) = 1
    /\ endedBy[1] = <<"stopConfetti">>
    /\ ~isActive
    /\ \E t \in debounceTimers : t.left > 0 /\ t.left < DebounceMs

\* ------------------------------------------------------------ C23
\* C23: at the end of every frame callback of a particle that runs the top,
\* bottom and side checks, the Settling flag is true exactly when the bounce
\* counter is >= bounceCount.
C23_SettlingIffCount ==
    Framed => (particle.isSettling <=> particle.bounces >= particle.bounceCount)

\* the frame in which a bottom reflection brings the counter of a particle
\* with bounceCount 2 to 2 and turns the flag on
C23_Witness ==
    /\ Framed
    /\ HitBottom
    /\ particle.bounceCount = 2
    /\ particle.bounces = 2
    /\ ~particle.before.isSettling
    /\ particle.isSettling
====
